---------------------------- MODULE Spec2Model ----------------------------
(***************************************************************************)
(* Convack: packing of convex polygons.                                    *)
(*                                                                         *)
(* A model of the geometry engine (Point2, Transformation, ConvexPolygon)  *)
(* and of the packing front end (PackingCandidate, BeamSearch, Scene).     *)
(* Coordinates are integers: on the small grids used here every float      *)
(* operation of the source is exact, so the model computes what the code   *)
(* computes.  Where larger coordinates occur (area, translate) the results *)
(* are rounded to float as the code rounds them; the doubles of a          *)
(* Transformation hold every integer of the model exactly.  Rotations are  *)
(* by quarter turns, with cosine and sine taken as exact.  Areas are kept  *)
(* doubled (the shoelace sum before the halving) so that they stay         *)
(* integers.                                                               *)
(***************************************************************************)
EXTENDS Integers, Sequences, FiniteSets, TLC

VARIABLES
    \* --- Scene / BeamSearch::pack -------------------------------------
    scene_polygons,   \* the caller's std::vector<ConvexPolygon>
    before,           \* the caller's copy of that list, taken when pack is called
    beam_width,       \* Scene::Impl::beam_width
    best_orders,      \* the priority queue local to BeamSearch::pack
    pack_pc,          \* where the pack call is
    ops,              \* how many mutator calls the caller has issued
    constructed,      \* the vertex lists the caller constructed the polygons from
    calls,            \* per polygon, the translate/rotate calls issued on it, in order
    widths,           \* the arguments of the set_beam_width calls so far, in order
    \* --- ConvexPolygon::convex_hull(points): gift wrapping ------------
    points,           \* the argument
    result,           \* the local vector `result`
    last,             \* the local `last`
    gw_pc,            \* where the call is
    prev_call,        \* the previous call of the caller: its argument and result
    \* --- convex_hull(polygons) and collides ---------------------------
    convex_polygons,  \* the argument: a list of vertex lists
    ch,               \* the locals of chans_algorithm
    ch_pc,            \* where the call is
    collided,         \* the values returned by a.collides(b) and b.collides(a)
    \* --- contains, area, operator == / != ----------------------------
    point,            \* the argument of contains
    contained,        \* the values returned by contains
    area,             \* the values returned by area (doubled)
    equal,            \* the values returned by a == b, a != b and b == a
    \* --- Transformation ---------------------------------------------
    transformation,   \* Transformation::data of the caller's Transformation
    issued,           \* the rotate/translate calls chained on it, in order
    applied,          \* the value returned by apply(point)
    \* --- PackingCandidate, constructed by a caller -------------------
    candidates,       \* the candidates the caller has constructed, in order
    scored,           \* per candidate, the score and the hull area its constructor computed
    cand_pc           \* where the caller is

sceneVars == <<scene_polygons, before, beam_width, best_orders, pack_pc, ops, constructed, calls,
               widths>>
hullVars  == <<points, result, last, gw_pc, prev_call>>
polyVars  == <<convex_polygons, ch, ch_pc, collided>>
transVars == <<transformation, issued, applied>>
candVars  == <<candidates, scored, cand_pc>>
constVars == <<point, contained, area, equal, transVars, candVars>>
vars      == <<sceneVars, hullVars, polyVars, constVars>>

-----------------------------------------------------------------------------
(* Bounds of the model.                                                    *)

\* Coordinates of the input points are 0 .. MaxCoord.
MaxCoord == 2
\* convex_hull(points) is called with at most MaxPts points.
MaxPts == 4
\* A polygon given to convex_hull(polygons) or collides has at most MaxVerts vertices.
MaxVerts == 4
\* The caller of Scene issues at most MaxOps translate/rotate/set_beam_width calls.
MaxOps == 2
\* set_beam_width is called with 0 .. MaxBeam.
MaxBeam == 2

Coords == 0 .. MaxCoord
Grid   == Coords \X Coords
None   == <<>>

-----------------------------------------------------------------------------
(* Point2                                                                  *)

\* "typedef float coordinate_t", "typedef float area_t": the bits of a
\* float's significand.
MantissaBits == 24

\* The spacing of the floats around m >= 0: the smallest power of two q
\* with m < 2^MantissaBits * q.
RECURSIVE Ulp(_, _)
Ulp(m, q) == IF m < (2 ^ MantissaBits) * q THEN q ELSE Ulp(m, 2 * q)

\* m >= 0 rounded to the nearest multiple of q, a tie to the even one.
RoundTo(m, q) ==
    IF 2 * (m % q) < q THEN m - (m % q)
    ELSE IF 2 * (m % q) > q THEN m - (m % q) + q
    ELSE IF ((m - (m % q)) \div q) % 2 = 0 THEN m - (m % q)
    ELSE m - (m % q) + q

\* The float nearest to the integer n: what a float operation with the
\* exact result n gives.  Integers below 2^MantissaBits are floats.
RoundFloat(n) == IF n < 0 THEN 0 - RoundTo(0 - n, Ulp(0 - n, 1)) ELSE RoundTo(n, Ulp(n, 1))

\* Point2::operator -
Minus(a, b) == <<a[1] - b[1], a[2] - b[2]>>

\* Point2::magnitude2
Magnitude2(a) == a[1] * a[1] + a[2] * a[2]

\* Point2::dot (declared by the callers; the usual inner product)
Dot(a, b) == a[1] * b[1] + a[2] * b[2]

\* The comparison "a.x < b.x || (a.x == b.x && a.y < b.y)" used to find the
\* left-most vertex.
LexLess(a, b) == a[1] < b[1] \/ (a[1] = b[1] /\ a[2] < b[2])

\* ConvexPolygon::Impl::is_left
IsLeft(a, b, query) ==
    (b[1] - a[1]) * (query[2] - a[2]) - (b[2] - a[2]) * (query[1] - a[1])

\* "how_left < 0 || (how_left == 0 && farther)": `next` is more clockwise
\* than `best` as seen from `from`, or colinear with it and farther away.
MoreRight(from, best, next) ==
    LET left == IsLeft(from, best, next)
    IN  left < 0 \/ (left = 0 /\ Magnitude2(Minus(next, from)) > Magnitude2(Minus(best, from)))

-----------------------------------------------------------------------------
(* Sequence helpers                                                        *)

Range(s) == {s[i] : i \in DOMAIN s}

\* s[k] for a 0-based index k, as the code indexes its vectors.
At(s, k) == s[k + 1]

PermutationsOf(s) ==
    {[i \in DOMAIN s |-> s[p[i]]] : p \in {q \in [DOMAIN s -> DOMAIN s] : Range(q) = DOMAIN s}}

SeqsUpTo(S, n) == UNION {[1 .. k -> S] : k \in 0 .. n}

\* F(x), with x evaluated once before F is applied (a local of the code that
\* is computed once and then read several times).
Strict(x, F(_)) == CHOOSE r \in {F(v) : v \in {x}} : TRUE

-----------------------------------------------------------------------------
(* ConvexPolygon::operator ==                                              *)

\* The comparison without the loop over the rotations.
PolyEqAligned(a, b) ==
    IF Len(a) # Len(b) THEN FALSE
    ELSE IF Len(a) = 0 THEN TRUE
    ELSE \A i \in 0 .. Len(a) - 1 : At(a, i) = At(b, i)

PolyEq(a, b) ==
    IF Len(a) # Len(b) THEN FALSE
    ELSE IF Len(a) = 0 THEN TRUE
    ELSE \E offset \in 0 .. Len(a) - 1 :
            \A i \in 0 .. Len(a) - 1 : At(a, i) = At(b, (i + offset) % Len(a))

\* ConvexPolygon::operator !=
PolyNeq(a, b) == ~PolyEq(a, b)

-----------------------------------------------------------------------------
(* ConvexPolygon::Impl::gift_wrapping                                      *)

\* std::min_element with the left-most comparison: the first smallest element.
RECURSIVE MinElementFrom(_, _, _)
MinElementFrom(pts, i, smallest) ==
    IF i > Len(pts) THEN smallest
    ELSE MinElementFrom(pts, i + 1, IF LexLess(pts[i], smallest) THEN pts[i] ELSE smallest)

MinElement(pts) == MinElementFrom(pts, 2, pts[1])

\* "Start off with a candidate that is NOT equal to the best": the first
\* point that differs from `last`, or `last` itself if there is none.
RECURSIVE FirstCandidate(_, _, _)
FirstCandidate(pts, from, i) ==
    IF i > Len(pts) THEN from
    ELSE IF pts[i] # from THEN pts[i]
    ELSE FirstCandidate(pts, from, i + 1)

\* The farthest-on-a-tie rule of the update loop, with the comparison the
\* wrong way round.
TieBreakNearest(from, best, next) ==
    IF Magnitude2(Minus(next, from)) < Magnitude2(Minus(best, from)) /\ next # from
    THEN next ELSE best

\* "Choose the vertex that is furthest away."
TieBreak(from, best, next) ==
    IF Magnitude2(Minus(next, from)) > Magnitude2(Minus(best, from)) THEN next ELSE best

\* The turn test of the update loop with its sign flipped.
TurnsLeft(left) == left > 0

\* "if(how_left < 0)": `next` is to the right of the line from `last` to `best`.
TurnsRight(left) == left < 0

\* The loop "for(Point2 next : points)" that updates `best`.
RECURSIVE UpdateBest(_, _, _, _)
UpdateBest(pts, from, best, i) ==
    IF i > Len(pts) THEN best
    ELSE LET next == pts[i]
             left == IsLeft(from, best, next)
         IN  Strict(IF TurnsRight(left) THEN next
                    ELSE IF left = 0 THEN TieBreak(from, best, next)
                    ELSE best,
                    LAMBDA b : UpdateBest(pts, from, b, i + 1))

\* One pass of the do-while body after the push_back: the next hull vertex.
WrapNext(pts, from) == UpdateBest(pts, from, FirstCandidate(pts, from, 1), 1)

\* The do-while loop.  It is cut after Len(pts) + 1 vertices, which is one
\* more than a walk that never repeats a point can append.
RECURSIVE GiftWalk(_, _, _)
GiftWalk(pts, res, from) ==
    Strict(<<Append(res, from), WrapNext(pts, from)>>,
           LAMBDA rn : IF rn[2] = rn[1][1] \/ Len(rn[1]) > Len(pts)
                       THEN rn[1]
                       ELSE GiftWalk(pts, rn[1], rn[2]))

\* The early return taken for every input that has at most one point.
DegenerateUpToOne(pts) == Len(pts) <= 1

\* The early return taken for every input that has at most three points.
DegenerateUpToThree(pts) == Len(pts) <= 3

\* "if(points.size() <= 2) return ConvexPolygon(points);"
Degenerate(pts) == Len(pts) <= 2

\* gift_wrapping as a whole.
GiftWrapping(pts) ==
    IF Degenerate(pts) THEN pts ELSE GiftWalk(pts, <<>>, MinElement(pts))

-----------------------------------------------------------------------------
(* ConvexPolygon::Impl::chans_algorithm                                    *)

\* What a read of vertices[k] with k = vertices.size() may deliver: the
\* read is beyond the vector's elements, so its value is not determined by
\* the program.  Representatives: left of, inside and right of the grid.
Garbage == {<<0 - 1, 0>>, <<1, 1>>, <<MaxCoord + 1, MaxCoord + 1>>}

\* vertices[k]; g is what an out-of-range read delivers.
ReadAt(v, k, g) == IF k < Len(v) THEN At(v, k) ELSE g

\* The while loop of the binary search for the left-most vertex
\* (lower_bound, upper_bound are lo, hi); its value is the final lower_bound.
RECURSIVE LeftmostLoop(_, _, _)
LeftmostLoop(v, lo, hi) ==
    IF hi - lo <= 1 THEN lo
    ELSE LET n               == Len(v)
             pivot           == (hi + lo) \div 2
             pivot_point     == At(v, pivot)
             pivot_next      == At(v, (pivot + 1) % n)
             pivot_goes_left == LexLess(pivot_next, pivot_point)
             pivot_previous  == At(v, (pivot - 1 + n) % n)
             lower_point     == At(v, lo)
             lower_next      == At(v, (lo + 1) % n)
             lower_goes_left == LexLess(lower_next, lower_point)
         IN  IF ~pivot_goes_left /\ LexLess(pivot_point, pivot_previous) THEN pivot
             ELSE IF lower_goes_left
                  THEN IF ~pivot_goes_left THEN LeftmostLoop(v, lo, pivot)
                       ELSE IF LexLess(pivot_point, lower_point)
                            THEN LeftmostLoop(v, pivot + 1, hi)
                            ELSE LeftmostLoop(v, lo, pivot)
                  ELSE IF pivot_goes_left THEN LeftmostLoop(v, pivot + 1, hi)
                       ELSE IF LexLess(lower_point, pivot_point)
                            THEN LeftmostLoop(v, pivot + 1, hi)
                            ELSE LeftmostLoop(v, lo, pivot)

\* The index (0-based) the first binary search ends on, for a non-empty v.
LeftmostIndex(v) ==
    IF Len(v) > 1 /\ ~(LexLess(At(v, 0), At(v, 1)) /\ LexLess(At(v, 0), At(v, Len(v) - 1)))
    THEN LeftmostLoop(v, 0, Len(v))
    ELSE 0

\* "if(vertices[lower_bound] is left of best) { best = ...; }" for one
\* polygon of the first loop.  b = [best, best_vertex, best_polygon, oob];
\* best_polygon = -1 stands for the initial Point2(numeric_limits::max(), 0),
\* which every vertex beats.
LeftmostConsider(b, v, polygon, lower_bound, g) ==
    IF b.best_polygon = 0 - 1 \/ LexLess(ReadAt(v, lower_bound, g), b.best)
    THEN [best |-> ReadAt(v, lower_bound, g), best_vertex |-> lower_bound,
          best_polygon |-> polygon, oob |-> b.oob \/ lower_bound >= Len(v)]
    ELSE [b EXCEPT !.oob = b.oob \/ lower_bound >= Len(v)]

\* The loop over the polygons that finds the globally left-most vertex.
RECURSIVE LeftmostScan(_, _, _, _)
LeftmostScan(polys, polygon, b, g) ==
    IF polygon >= Len(polys) THEN b
    ELSE IF Len(At(polys, polygon)) = 0 THEN LeftmostScan(polys, polygon + 1, b, g)
    ELSE LeftmostScan(polys, polygon + 1,
             LeftmostConsider(b, At(polys, polygon), polygon,
                              LeftmostIndex(At(polys, polygon)), g), g)

\* The while loop of the binary search for the most clockwise vertex as
\* seen from `from` (the local `last`); its value is the final lower_bound.
RECURSIVE RightmostLoop(_, _, _, _)
RightmostLoop(v, from, lo, hi) ==
    IF hi - lo <= 1 THEN lo
    ELSE LET n                == Len(v)
             pivot            == (hi + lo) \div 2
             pivot_point      == At(v, pivot)
             pivot_next       == At(v, (pivot + 1) % n)
             pivot_how_left   == IsLeft(from, pivot_point, pivot_next)
             pivot_goes_right == MoreRight(from, pivot_point, pivot_next)
             pivot_previous   == At(v, (pivot - 1 + n) % n)
             lower_point      == At(v, lo)
             lower_next       == At(v, (lo + 1) % n)
             lower_how_left   == IsLeft(from, lower_point, lower_next)
             lower_goes_right == MoreRight(from, lower_point, lower_next)
             pivot_dist       == Magnitude2(Minus(pivot_point, from))
             lower_dist       == Magnitude2(Minus(lower_point, from))
         IN  IF ~pivot_goes_right /\ MoreRight(from, pivot_previous, pivot_point) THEN pivot
             ELSE IF lower_goes_right
                  THEN IF ~pivot_goes_right THEN RightmostLoop(v, from, lo, pivot)
                       ELSE IF pivot_how_left < lower_how_left
                               \/ (pivot_how_left = lower_how_left /\ pivot_dist > lower_dist)
                            THEN RightmostLoop(v, from, pivot + 1, hi)
                            ELSE RightmostLoop(v, from, lo, pivot)
                  ELSE IF pivot_goes_right THEN RightmostLoop(v, from, pivot + 1, hi)
                       ELSE IF pivot_how_left > lower_how_left
                               \/ (pivot_how_left = lower_how_left /\ lower_dist > pivot_dist)
                            THEN RightmostLoop(v, from, pivot + 1, hi)
                            ELSE RightmostLoop(v, from, lo, pivot)

\* The index (0-based) the second binary search ends on, for a non-empty v.
RightmostIndex(v, from) ==
    IF Len(v) > 1
       /\ ~(MoreRight(from, At(v, 1), At(v, 0)) /\ MoreRight(from, At(v, Len(v) - 1), At(v, 0)))
    THEN RightmostLoop(v, from, 0, Len(v))
    ELSE 0

\* "Is it better than the current best?" for one polygon of the second loop.
RightmostConsider(from, b, v, polygon, lower_bound, g) ==
    IF MoreRight(from, b.best, ReadAt(v, lower_bound, g))
    THEN [best |-> ReadAt(v, lower_bound, g), best_vertex |-> lower_bound,
          best_polygon |-> polygon, oob |-> b.oob \/ lower_bound >= Len(v)]
    ELSE [b EXCEPT !.oob = b.oob \/ lower_bound >= Len(v)]

\* The for loop "for(polygon = (last_polygon + 1) % size; polygon != last_polygon; ...)".
RECURSIVE RightmostScan(_, _, _, _, _, _)
RightmostScan(polys, from, last_polygon, polygon, b, g) ==
    IF polygon = last_polygon THEN b
    ELSE IF Len(At(polys, polygon)) = 0
         THEN RightmostScan(polys, from, last_polygon, (polygon + 1) % Len(polys), b, g)
         ELSE RightmostScan(polys, from, last_polygon, (polygon + 1) % Len(polys),
                  RightmostConsider(from, b, At(polys, polygon), polygon,
                                    RightmostIndex(At(polys, polygon), from), g), g)

\* The locals of the hull walk when the do-while loop is entered.
ChansEnter(b) ==
    [result |-> <<>>, best |-> b.best, best_vertex |-> b.best_vertex,
     best_polygon |-> b.best_polygon, last |-> b.best,
     last_polygon |-> b.best_polygon, last_vertex |-> b.best_vertex, oob |-> b.oob]

\* "best_vertex = (last_vertex + 1) % size": the owning polygon's next vertex.
OwnNext(s, own) == (s.last_vertex + 1) % Len(own)

\* The locals before the for loop of one pass: the owning polygon's next
\* vertex is the first candidate.
StepStart(s, own, bv) ==
    [best |-> At(own, bv), best_vertex |-> bv, best_polygon |-> s.best_polygon, oob |-> s.oob]

\* The locals at the end of one pass, b being what the for loop found.
StepEnd(s, b) ==
    [result |-> Append(s.result, s.best), best |-> b.best,
     best_vertex |-> b.best_vertex, best_polygon |-> b.best_polygon,
     last |-> b.best, last_polygon |-> b.best_polygon,
     last_vertex |-> b.best_vertex, oob |-> b.oob]

\* One pass of the do-while body.
ChansStep(polys, s, g) ==
    StepEnd(s, RightmostScan(polys, s.last, s.last_polygon,
                             (s.last_polygon + 1) % Len(polys),
                             StepStart(s, At(polys, s.last_polygon),
                                       OwnNext(s, At(polys, s.last_polygon))), g))

\* "while(best != result[0])" is left.
ChansClosed(s) == s.best = s.result[1]

RECURSIVE SumLen(_, _)
SumLen(polys, i) == IF i > Len(polys) THEN 0 ELSE Len(polys[i]) + SumLen(polys, i + 1)

\* The number of vertices after which the model gives a walk up: more than
\* there are vertices in the input, so a point has been appended twice.
HullCap(polys) == SumLen(polys, 1) + 1

NoLeftmost == [best |-> <<0, 0>>, best_vertex |-> 0 - 1, best_polygon |-> 0 - 1, oob |-> FALSE]

\* The do-while loop as a whole: [vertices, outcome, oob].
RECURSIVE ChansWalk(_, _, _)
ChansWalk(polys, s, g) ==
    Strict(ChansStep(polys, s, g),
           LAMBDA t :
             IF ChansClosed(t) THEN [vertices |-> t.result, outcome |-> "returned", oob |-> t.oob]
             ELSE IF Len(t.result) >= HullCap(polys)
                  THEN [vertices |-> t.result, outcome |-> "runaway", oob |-> t.oob]
                  ELSE ChansWalk(polys, t, g))

\* chans_algorithm as a whole.
ChansAlgorithm(polys, g) ==
    IF Len(polys) = 0 THEN [vertices |-> <<>>, outcome |-> "returned", oob |-> FALSE]
    ELSE IF Len(polys) = 1 THEN [vertices |-> polys[1], outcome |-> "returned", oob |-> FALSE]
    ELSE Strict(LeftmostScan(polys, 0, NoLeftmost, g),
                LAMBDA b : IF b.best_polygon = 0 - 1
                           THEN [vertices |-> <<>>, outcome |-> "returned", oob |-> b.oob]
                           ELSE ChansWalk(polys, ChansEnter(b), g))

-----------------------------------------------------------------------------
(* ConvexPolygon::Impl::collides, area                                     *)

\* The loop of contains from edge i on: false at the first edge the point is
\* not strictly left of.
RECURSIVE ContainsFrom(_, _, _)
ContainsFrom(v, p, i) ==
    IF i >= Len(v) THEN TRUE
    ELSE IF IsLeft(At(v, i), At(v, (i + 1) % Len(v)), p) <= 0 THEN FALSE
    ELSE ContainsFrom(v, p, i + 1)

\* contains with the boundary counted as inside.
ContainsClosed(v, p) ==
    IF Len(v) < 3 THEN FALSE
    ELSE \A i \in 0 .. Len(v) - 1 : IsLeft(At(v, i), At(v, (i + 1) % Len(v)), p) >= 0

\* ConvexPolygon::Impl::contains
Contains(v, p) == IF Len(v) < 3 THEN FALSE ELSE ContainsFrom(v, p, 0)

\* The projection on the axis turned the other way (-edge_vector.y, edge_vector.x).
ProjectionFlipped(a, this_edge, other_vertex) ==
    LET edge_vector == Minus(At(a, (this_edge + 1) % Len(a)), At(a, this_edge))
        axis_vector == <<0 - edge_vector[2], edge_vector[1]>>
    IN  Dot(axis_vector, Minus(other_vertex, At(a, this_edge)))

\* "axis_vector.dot(other_vertex - vertices[this_edge])" for edge this_edge of a.
Projection(a, this_edge, other_vertex) ==
    LET edge_vector == Minus(At(a, (this_edge + 1) % Len(a)), At(a, this_edge))
        axis_vector == <<edge_vector[2], 0 - edge_vector[1]>>
    IN  Dot(axis_vector, Minus(other_vertex, At(a, this_edge)))

\* The loop over the edges with "projection <= 0" as the overlap test.
NoSeparatingEdgeTouching(a, b) ==
    \A this_edge \in 0 .. Len(a) - 1 :
        \E i \in 1 .. Len(b) : Projection(a, this_edge, b[i]) <= 0

\* The for loop over the edges of a ran to its end: on every edge some
\* vertex of b projects negatively (axis_overlap), so no edge separates.
NoSeparatingEdge(a, b) ==
    \A this_edge \in 0 .. Len(a) - 1 :
        \E i \in 1 .. Len(b) : Projection(a, this_edge, b[i]) < 0

\* collides without the early return for polygons that have no area.
CollidesUnguarded(a, b, check_other) ==
    /\ \A this_edge \in 0 .. Len(a) - 1 :
          \E i \in 1 .. Len(b) : Projection(a, this_edge, b[i]) < 0
    /\ \A other_edge \in 0 .. Len(b) - 1 :
          \E i \in 1 .. Len(a) : Projection(b, other_edge, a[i]) < 0

\* collides without the check from the other side.
CollidesOneSided(a, b, check_other) ==
    IF Len(a) < 3 \/ Len(b) < 3 THEN FALSE ELSE NoSeparatingEdge(a, b)

\* collides(other, check_other)
RECURSIVE CollidesImpl(_, _, _)
CollidesImpl(a, b, check_other) ==
    IF Len(a) < 3 \/ Len(b) < 3 THEN FALSE
    ELSE IF ~NoSeparatingEdge(a, b) THEN FALSE
    ELSE IF check_other THEN CollidesImpl(b, a, FALSE)
    ELSE TRUE

\* ConvexPolygon::collides
Collides(a, b) == CollidesImpl(a, b, TRUE)

\* "x[previous] * y[vertex] - y[previous] * x[vertex]", every operation in float.
ShoelaceTerm(a, b) == RoundFloat(RoundFloat(a[1] * b[2]) - RoundFloat(a[2] * b[1]))

\* The shoelace loop of area(), `area` being the sum so far.
RECURSIVE ShoelaceFrom(_, _, _, _)
ShoelaceFrom(v, vertex, previous, sum) ==
    IF vertex >= Len(v) THEN sum
    ELSE ShoelaceFrom(v, vertex + 1, vertex,
                      RoundFloat(sum + ShoelaceTerm(At(v, previous), At(v, vertex))))

\* area() with the closing edge left out of the sum.
Area2Open(v) == IF Len(v) = 0 THEN 0 ELSE ShoelaceFrom(v, 1, 0, 0)

\* Twice ConvexPolygon::area(): the sum before "return area / 2", which
\* halves it exactly.
Area2(v) == IF Len(v) = 0 THEN 0 ELSE ShoelaceFrom(v, 0, Len(v) - 1, 0)

-----------------------------------------------------------------------------
(* Transformation and the mutators of ConvexPolygon                        *)

\* Transformation::Transformation
Identity == <<1, 0, 0, 1, 0, 0>>

\* Transformation::apply
Apply(data, p) ==
    <<RoundFloat(data[1] * p[1] + data[3] * p[2] + data[5]),
      RoundFloat(data[2] * p[1] + data[4] * p[2] + data[6])>>

\* std::cos and std::sin of q quarter turns.
Cos4(q) == CASE q % 4 = 0 -> 1 [] q % 4 = 1 -> 0 [] q % 4 = 2 -> 0 - 1 [] OTHER -> 0
Sin4(q) == CASE q % 4 = 0 -> 0 [] q % 4 = 1 -> 1 [] q % 4 = 2 -> 0 [] OTHER -> 0 - 1

\* A rotation that turns the matrix part and leaves the translation as it is.
RotateTLinearOnly(data, q) ==
    LET cosine == Cos4(q)
        sine   == Sin4(q)
    IN  <<cosine * data[1] - sine * data[2], sine * data[1] + cosine * data[2],
          cosine * data[3] - sine * data[4], sine * data[3] + cosine * data[4],
          data[5], data[6]>>

\* Transformation::rotate, by q quarter turns
RotateT(data, q) ==
    LET cosine == Cos4(q)
        sine   == Sin4(q)
    IN  <<cosine * data[1] - sine * data[2], sine * data[1] + cosine * data[2],
          cosine * data[3] - sine * data[4], sine * data[3] + cosine * data[4],
          cosine * data[5] - sine * data[6], sine * data[5] + cosine * data[6]>>

\* A translation by the offset as the matrix part so far turns it.
TranslateTRotated(data, x, y) ==
    [data EXCEPT ![5] = @ + data[1] * x + data[3] * y, ![6] = @ + data[2] * x + data[4] * y]

\* Transformation::translate
TranslateT(data, x, y) == [data EXCEPT ![5] = @ + x, ![6] = @ + y]

\* ConvexPolygon::ConvexPolygon(vertices)
NewPolygon(v) == [vertices |-> v, transformation |-> Identity]

\* translate without the line that tracks the transformation.
PolyTranslateUntracked(poly, x, y) ==
    LET translation == TranslateT(Identity, x, y)
    IN  [vertices |-> [i \in DOMAIN poly.vertices |-> Apply(translation, poly.vertices[i])],
         transformation |-> poly.transformation]

\* rotate without the line that tracks the transformation.
PolyRotateUntracked(poly, q) ==
    LET rotation == RotateT(Identity, q)
    IN  [vertices |-> [i \in DOMAIN poly.vertices |-> Apply(rotation, poly.vertices[i])],
         transformation |-> poly.transformation]

\* ConvexPolygon::Impl::translate
PolyTranslate(poly, x, y) ==
    LET translation == TranslateT(Identity, x, y)
    IN  [vertices |-> [i \in DOMAIN poly.vertices |-> Apply(translation, poly.vertices[i])],
         transformation |-> TranslateT(poly.transformation, x, y)]

\* ConvexPolygon::Impl::rotate, by q quarter turns
PolyRotate(poly, q) ==
    LET rotation == RotateT(Identity, q)
    IN  [vertices |-> [i \in DOMAIN poly.vertices |-> Apply(rotation, poly.vertices[i])],
         transformation |-> RotateT(poly.transformation, q)]

VerticesOf(polys) == [i \in DOMAIN polys |-> polys[i].vertices]

-----------------------------------------------------------------------------
(* PackingCandidate                                                        *)

\* The loop "for(convex_polygon : packed_objects) covered_area = convex_polygon.area();"
\* (doubled): each pass overwrites covered_area.
RECURSIVE CoveredArea2(_, _, _)
CoveredArea2(packed_objects, i, covered_area) ==
    IF i > Len(packed_objects) THEN covered_area
    ELSE CoveredArea2(packed_objects, i + 1, Area2(packed_objects[i].vertices))

\* compute_score without the guard "if(lost_area <= 0) return 0".
ScoreOfUnguarded(covered_area, lost_area, outcome) ==
    IF outcome # "returned" THEN [num |-> 0, den |-> 1, outcome |-> outcome]
    ELSE [num |-> lost_area - covered_area, den |-> lost_area, outcome |-> "returned"]

\* PackingCandidate::compute_score.  The score is the fraction num / den;
\* outcome tells whether the hull construction it calls came back.
ScoreOf(covered_area, lost_area, outcome) ==
    IF outcome # "returned" THEN [num |-> 0, den |-> 1, outcome |-> outcome]
    ELSE IF lost_area <= 0 THEN [num |-> 0, den |-> 1, outcome |-> "returned"]
    ELSE [num |-> lost_area - covered_area, den |-> lost_area, outcome |-> "returned"]

ComputeScore(packed_objects, pack_here, parent, g) ==
    Strict(ChansAlgorithm(VerticesOf(packed_objects), g),
           LAMBDA hull : ScoreOf(CoveredArea2(packed_objects, 1, 0),
                                 Area2(hull.vertices), hull.outcome))

\* PackingCandidate::PackingCandidate
NewCandidate(packed_objects, pack_here, parent, score) ==
    [pack_here |-> pack_here, parent |-> parent, score |-> <<score.num, score.den>>]

\* PackingCandidate::get_score
GetScore(candidate) == candidate.score

\* Candidates whose score follows the list: each is computed anew from the
\* list as it is now.
CandidatesRescored(cands, packed_objects) ==
    [j \in DOMAIN cands |->
        [cands[j] EXCEPT !.score =
            Strict(ComputeScore(packed_objects, cands[j].pack_here, cands[j].parent,
                                CHOOSE g \in Garbage : TRUE),
                   LAMBDA sc : IF sc.outcome = "returned" THEN <<sc.num, sc.den>> ELSE @)]]

\* The caller's candidates after a polygon of the list they reference was
\* translated or rotated: `score` and `pack_here` are members of the
\* candidate, which translate and rotate do not reach.
CandidatesAfterMove(cands, packed_objects) == cands

-----------------------------------------------------------------------------
(* Scene and BeamSearch::pack                                              *)

\* The caller packs at most MaxPolys polygons.
MaxPolys == 2

\* The polygons the caller constructs: the triangle of the test fixture
\* (scaled down), a unit square and a two-vertex line.
Triangle == <<<<0, 0>>, <<2, 0>>, <<1, 2>>>>
Square   == <<<<0, 0>>, <<1, 0>>, <<1, 1>>, <<0, 1>>>>
Line     == <<<<0, 0>>, <<1, 1>>>>
Shapes   == {Triangle, Square, Line}

\* The offsets the caller translates by.
Offsets == {<<2, 0>>, <<0, 2>>, <<0 - 2, 0>>, <<1, 1>>}

\* Scene::Impl::Impl: the beam width a new scene has.
DefaultBeamWidth == 10

CallerMayAct == pack_pc \in {"idle", "returned"} /\ ops < MaxOps

\* ConvexPolygon::translate on the i-th polygon of the caller's list
TranslateCall(i, x, y) ==
    /\ CallerMayAct
    /\ scene_polygons' = [scene_polygons EXCEPT ![i] = PolyTranslate(@, x, y)]
    /\ calls' = [calls EXCEPT ![i] = Append(@, <<"translate", x, y>>)]
    /\ ops' = ops + 1
    /\ pack_pc' = "idle"
    /\ UNCHANGED <<before, beam_width, best_orders, constructed, widths, hullVars, polyVars, constVars>>

\* ConvexPolygon::rotate on the i-th polygon of the caller's list
RotateCall(i, q) ==
    /\ CallerMayAct
    /\ scene_polygons' = [scene_polygons EXCEPT ![i] = PolyRotate(@, q)]
    /\ calls' = [calls EXCEPT ![i] = Append(@, <<"rotate", q>>)]
    /\ ops' = ops + 1
    /\ pack_pc' = "idle"
    /\ UNCHANGED <<before, beam_width, best_orders, constructed, widths, hullVars, polyVars, constVars>>

\* A get_beam_width that answers with the default setting.
GetBeamWidthDefault(width) == DefaultBeamWidth

\* Scene::Impl::get_beam_width
GetBeamWidth(width) == width

\* Scene::set_beam_width
SetBeamWidth(new_beam_width) ==
    /\ CallerMayAct
    /\ beam_width' = new_beam_width
    /\ widths' = Append(widths, new_beam_width)
    /\ ops' = ops + 1
    /\ UNCHANGED <<scene_polygons, before, best_orders, pack_pc, constructed, calls, hullVars, polyVars, constVars>>

\* Scene::pack -> Scene::Impl::pack -> BeamSearch::pack, up to the loop
\* that seeds the queue.
PackCall ==
    /\ pack_pc \in {"idle", "returned"}
    /\ before' = scene_polygons
    /\ best_orders' = <<>>
    /\ pack_pc' = IF Len(scene_polygons) = 0 THEN "returned" ELSE "seeding"
    /\ UNCHANGED <<scene_polygons, beam_width, ops, constructed, widths, calls, hullVars, polyVars, constVars>>

\* The list after an emplace that moves the polygon into the candidate
\* instead of copying it: the polygon left behind is empty.
PolygonsAfterMove(polys, i) == [polys EXCEPT ![i].vertices = <<>>]

\* The caller's list after "best_orders.emplace(&convex_polygons,
\* convex_polygon, nullptr)" for its i-th polygon: the candidate copies it.
PolygonsAfterEmplace(polys, i) == polys

\* One pass of "for(ConvexPolygon& convex_polygon : convex_polygons)".
\* The candidate's constructor computes its score, which takes the hull of
\* the whole list; when that hull walk does not close, pack does not
\* come back.
PackEmplace ==
    /\ pack_pc = "seeding"
    /\ Len(best_orders) < Len(scene_polygons)
    /\ LET i == Len(best_orders) + 1
       IN  \E g \in Garbage :
             \E score \in {ComputeScore(scene_polygons, scene_polygons[i], None, g)} :
                 IF score.outcome = "returned"
                 THEN /\ best_orders' = Append(best_orders,
                              NewCandidate(scene_polygons, scene_polygons[i], None, score))
                      /\ scene_polygons' = PolygonsAfterEmplace(scene_polygons, i)
                      /\ pack_pc' = "seeding"
                 ELSE /\ pack_pc' = "hung"
                      /\ UNCHANGED <<best_orders, scene_polygons>>
    /\ UNCHANGED <<before, beam_width, ops, constructed, widths, calls, hullVars, polyVars, constVars>>

\* The end of BeamSearch::pack: the queue goes out of scope.
PackReturn ==
    /\ pack_pc = "seeding"
    /\ Len(best_orders) = Len(scene_polygons)
    /\ best_orders' = <<>>
    /\ pack_pc' = "returned"
    /\ UNCHANGED <<scene_polygons, before, beam_width, ops, constructed, widths, calls, hullVars, polyVars, constVars>>

HullIdle ==
    /\ points = <<>> /\ result = <<>> /\ last = <<0, 0>>
    /\ gw_pc = "unused" /\ prev_call = None

PolyIdle ==
    /\ convex_polygons = <<>> /\ ch = None /\ ch_pc = "unused" /\ collided = None

SceneIdle ==
    /\ scene_polygons = <<>> /\ before = <<>> /\ beam_width = DefaultBeamWidth
    /\ best_orders = <<>> /\ pack_pc = "unused" /\ ops = 0
    /\ constructed = <<>> /\ calls = <<>> /\ widths = <<>>

TransIdle == transformation = Identity /\ issued = <<>> /\ applied = None

CandIdle == candidates = <<>> /\ scored = <<>> /\ cand_pc = "unused"

ConstIdle ==
    /\ point = <<0, 0>> /\ contained = None /\ area = None /\ equal = None
    /\ TransIdle
    /\ CandIdle

\* Scene::Scene, and the list the caller builds.
Init ==
    /\ scene_polygons \in {[i \in DOMAIN l |-> NewPolygon(l[i])] : l \in SeqsUpTo(Shapes, MaxPolys)}
    /\ before = <<>>
    /\ beam_width = DefaultBeamWidth
    /\ best_orders = <<>>
    /\ pack_pc = "idle"
    /\ ops = 0
    /\ constructed = VerticesOf(scene_polygons)
    /\ widths = <<>>
    /\ calls = [i \in DOMAIN scene_polygons |-> <<>>]
    /\ HullIdle
    /\ PolyIdle
    /\ ConstIdle

Next ==
    \/ \E i \in DOMAIN scene_polygons : \E d \in Offsets : TranslateCall(i, d[1], d[2])
    \/ \E i \in DOMAIN scene_polygons : \E q \in 1 .. 3 : RotateCall(i, q)
    \/ \E n \in 0 .. MaxBeam : SetBeamWidth(n)
    \/ PackCall
    \/ PackEmplace
    \/ PackReturn

Spec == Init /\ [][Next]_vars

\* C1: after Scene::pack returns, no two distinct polygons of the list collide.
PackedWithoutOverlap ==
    (pack_pc = "returned" /\ \A i \in DOMAIN scene_polygons : Len(scene_polygons[i].vertices) >= 3) =>
        \A i, j \in DOMAIN scene_polygons :
            i # j => ~Collides(scene_polygons[i].vertices, scene_polygons[j].vertices)

\* C2: pack leaves the list's length and order alone; every polygon keeps
\* its number of vertices, and a polygon that had the identity
\* transformation before the call has the vertices its current
\* transformation gives when applied to the vertices it had before.
PackKeepsList ==
    pack_pc = "returned" =>
        /\ Len(scene_polygons) = Len(before)
        /\ \A i \in DOMAIN before :
              /\ Len(scene_polygons[i].vertices) = Len(before[i].vertices)
              /\ before[i].transformation = Identity =>
                    scene_polygons[i].vertices =
                        [k \in DOMAIN before[i].vertices |->
                            Apply(scene_polygons[i].transformation, before[i].vertices[k])]

\* C2 witness: pack has returned for a list of two polygons, one untouched
\* since its construction and one that the caller had moved.
PackKeepsListWitness ==
    /\ pack_pc = "returned"
    /\ Len(scene_polygons) = 2
    /\ before[1].transformation = Identity
    /\ before[2].transformation # Identity
    /\ Len(before[1].vertices) >= 3

-----------------------------------------------------------------------------
(* convex_hull(points): the caller and the call                            *)

\* The call up to the do-while loop.
HullCall ==
    /\ gw_pc = "call"
    /\ IF Degenerate(points)
       THEN /\ result' = points
            /\ last' = last
            /\ gw_pc' = "returned"
       ELSE /\ result' = <<>>
            /\ last' = MinElement(points)
            /\ gw_pc' = "walk"
    /\ UNCHANGED <<points, prev_call, sceneVars, polyVars, constVars>>

\* Where the walk is after a pass that left r in `result` and found nxt.
WalkPc(r, nxt) ==
    IF nxt = r[1] THEN "returned"
    ELSE IF Len(r) > Len(points) THEN "runaway"
    ELSE "walk"

\* One pass of the do-while loop.
HullStep ==
    /\ gw_pc = "walk"
    /\ result' = Append(result, last)
    /\ last' = WrapNext(points, last)
    /\ gw_pc' = WalkPc(result', last')
    /\ UNCHANGED <<points, prev_call, sceneVars, polyVars, constVars>>

\* The caller calls convex_hull again, with the same points in another order.
HullPermuted ==
    /\ gw_pc = "returned"
    /\ prev_call = None
    /\ \E q \in PermutationsOf(points) \ {points} :
          /\ points' = q
          /\ result' = GiftWrapping(q)
    /\ prev_call' = [points |-> points, result |-> result]
    /\ UNCHANGED <<last, gw_pc, sceneVars, polyVars, constVars>>

\* The caller calls convex_hull again, with the vertices of the hull it got.
HullOfHull ==
    /\ gw_pc = "returned"
    /\ prev_call = None
    /\ points' = result
    /\ result' = GiftWrapping(result)
    /\ prev_call' = [points |-> points, result |-> result]
    /\ UNCHANGED <<last, gw_pc, sceneVars, polyVars, constVars>>

InitHull ==
    /\ points \in SeqsUpTo(Grid, MaxPts)
    /\ result = <<>>
    /\ last = <<0, 0>>
    /\ gw_pc = "call"
    /\ prev_call = None
    /\ SceneIdle
    /\ PolyIdle
    /\ ConstIdle

NextHull == HullCall \/ HullStep \/ HullPermuted \/ HullOfHull

SpecHull == InitHull /\ [][NextHull]_vars

AllColinear(pts) == \A a, b, c \in Range(pts) : IsLeft(a, b, c) = 0

\* h lies on the line through a and b, strictly between them.
StrictlyBetween(a, h, b) ==
    /\ IsLeft(a, b, h) = 0
    /\ Dot(Minus(a, h), Minus(b, h)) < 0

FirstCallReturned == gw_pc = "returned" /\ prev_call = None

\* The walk in steps and the walk as one operator are the same walk.
StepsAgreeWithOperator == FirstCallReturned => result = GiftWrapping(points)

\* C4: for at least 3 points that are not all on one line, the hull's
\* vertices are input points, every three consecutive vertices turn strictly
\* left, and no input point is strictly right of an edge.
HullIsConvexAndEncloses ==
    (FirstCallReturned /\ Len(points) >= 3 /\ ~AllColinear(points)) =>
        /\ Range(result) \subseteq Range(points)
        /\ Len(result) >= 3
        /\ \A i \in 0 .. Len(result) - 1 :
              /\ IsLeft(At(result, i), At(result, (i + 1) % Len(result)),
                        At(result, (i + 2) % Len(result))) > 0
              /\ \A p \in Range(points) :
                    IsLeft(At(result, i), At(result, (i + 1) % Len(result)), p) >= 0

\* C4 witness: four distinct points, one of them inside the triangle of the
\* other three (a concave corner), gave a hull of three vertices.
HullIsConvexWitness ==
    /\ FirstCallReturned
    /\ Len(points) = 4
    /\ Cardinality(Range(points)) = 4
    /\ Len(result) = 3
    /\ \E p \in Range(points) : \A i \in 0 .. 2 :
          IsLeft(At(result, i), At(result, (i + 1) % 3), p) > 0

\* C5: the hull of a permutation of the points equals (operator ==) the
\* hull of the points.
HullIgnoresOrder ==
    (gw_pc = "returned" /\ prev_call # None /\ points \in PermutationsOf(prev_call.points)) =>
        PolyEq(result, prev_call.result)

\* C5 witness: the triangle given clockwise, after it was given counter-clockwise.
HullIgnoresOrderWitness ==
    /\ gw_pc = "returned"
    /\ prev_call # None
    /\ prev_call.points = <<<<0, 0>>, <<2, 0>>, <<1, 2>>>>
    /\ points = <<<<0, 0>>, <<1, 2>>, <<2, 0>>>>
    /\ result = prev_call.points

\* C6: the hull of a hull's vertices equals (operator ==) that hull.
HullIdempotent ==
    (gw_pc = "returned" /\ prev_call # None /\ points = prev_call.result) =>
        PolyEq(result, prev_call.result)

\* C6 witness: a second call on the three hull vertices of four points.
HullIdempotentWitness ==
    /\ gw_pc = "returned"
    /\ prev_call # None
    /\ points = prev_call.result
    /\ Len(prev_call.points) = 4
    /\ Len(points) = 3
    /\ ~AllColinear(points)

\* C7: no hull vertex lies strictly between two input points, and 3 or more
\* points on one line (not all equal) give exactly the two extreme points.
HullSkipsColinear ==
    gw_pc = "returned" =>
        /\ \A k \in DOMAIN result : \A a, b \in Range(points) :
              ~StrictlyBetween(a, result[k], b)
        /\ (Len(points) >= 3 /\ AllColinear(points) /\ Cardinality(Range(points)) >= 2) =>
              /\ Len(result) = 2
              /\ \A p \in Range(points) :
                    ~LexLess(p, result[1]) /\ ~LexLess(result[2], p)

\* C7 witness: three distinct points of one line, the middle one given
\* first, gave the two outer ones.
HullSkipsColinearWitness ==
    /\ FirstCallReturned
    /\ Len(points) = 3
    /\ Cardinality(Range(points)) = 3
    /\ AllColinear(points)
    /\ StrictlyBetween(points[2], points[1], points[3])
    /\ Len(result) = 2

AllSame(pts) == \A i \in DOMAIN pts : pts[i] = pts[1]

\* C8 as stated: k >= 1 copies of one point give exactly one vertex.
CopiesCollapseAlways ==
    (gw_pc = "returned" /\ Len(points) >= 1 /\ AllSame(points)) => result = <<points[1]>>

\* C8 amended: k copies of one point give exactly one vertex for k = 1 and
\* every k >= 3; two copies come back as the two vertices they are.
CopiesCollapse ==
    (gw_pc = "returned" /\ Len(points) >= 1 /\ AllSame(points)) =>
        IF Len(points) = 2 THEN result = points ELSE result = <<points[1]>>

\* C8 witness: three copies of one point gave one vertex.
CopiesCollapseWitness ==
    /\ FirstCallReturned
    /\ Len(points) >= 3
    /\ AllSame(points)
    /\ result = <<points[1]>>

\* C9: 0, 1 or 2 points come back as they were given.
DegenerateUnchanged ==
    (gw_pc = "returned" /\ Len(points) <= 2) => result = points

\* C9 witness: two different points, the right-most first, came back in that order.
DegenerateUnchangedWitness ==
    /\ FirstCallReturned
    /\ Len(points) = 2
    /\ LexLess(points[2], points[1])
    /\ result = points

-----------------------------------------------------------------------------
(* convex_hull(polygons) and collides: the caller and the calls            *)

\* v is convex and counter-clockwise, without colinear or duplicate vertices.
StrictlyConvexCCW(v) ==
    /\ Len(v) >= 3
    /\ \A i \in 0 .. Len(v) - 1 :
          /\ IsLeft(At(v, i), At(v, (i + 1) % Len(v)), At(v, (i + 2) % Len(v))) > 0
          /\ \A k \in 0 .. Len(v) - 1 :
                IsLeft(At(v, i), At(v, (i + 1) % Len(v)), At(v, k)) >= 0

\* The polygons the caller constructs: convex counter-clockwise ones, starting
\* at any of their vertices, and those with fewer than 3 (distinct) vertices.
PolyDomain ==
    {v \in SeqsUpTo(Grid, MaxVerts) :
        \/ Len(v) <= 2 /\ Cardinality(Range(v)) = Len(v)
        \/ StrictlyConvexCCW(v)}

\* The locals at a return that is taken before the walk.
ChansReturn(vertices, oob) ==
    [ChansEnter(NoLeftmost) EXCEPT !.result = vertices, !.oob = oob]

\* Where the call is after the search for the left-most vertex found b.
AfterLeftmost(b) ==
    IF b.best_polygon = 0 - 1 THEN ChansReturn(<<>>, b.oob) ELSE ChansEnter(b)

\* The call up to the do-while loop.
ChansCall ==
    /\ ch_pc = "call"
    /\ collided = None
    /\ IF Len(convex_polygons) = 0
       THEN ch' = ChansReturn(<<>>, FALSE) /\ ch_pc' = "returned"
       ELSE IF Len(convex_polygons) = 1
       THEN ch' = ChansReturn(convex_polygons[1], FALSE) /\ ch_pc' = "returned"
       ELSE \E b0 \in {LeftmostScan(convex_polygons, 0, NoLeftmost, CHOOSE g \in Garbage : TRUE)} :
               \E b \in IF b0.oob
                        THEN {LeftmostScan(convex_polygons, 0, NoLeftmost, g) : g \in Garbage}
                        ELSE {b0} :
                  /\ ch' = AfterLeftmost(b)
                  /\ ch_pc' = IF b.best_polygon = 0 - 1 THEN "returned" ELSE "walk"
    /\ UNCHANGED <<convex_polygons, collided, sceneVars, hullVars, constVars>>

\* Where the walk is after a pass that left the locals t.
ChansPc(t) ==
    IF ChansClosed(t) THEN "returned"
    ELSE IF Len(t.result) >= HullCap(convex_polygons) THEN "runaway"
    ELSE "walk"

\* One pass of the do-while loop.
ChansWalkStep ==
    /\ ch_pc = "walk"
    /\ \E t0 \in {ChansStep(convex_polygons, ch, CHOOSE g \in Garbage : TRUE)} :
          \E t \in IF t0.oob
                   THEN {ChansStep(convex_polygons, ch, g) : g \in Garbage}
                   ELSE {t0} :
             /\ ch' = t
             /\ ch_pc' = ChansPc(t)
    /\ UNCHANGED <<convex_polygons, collided, sceneVars, hullVars, constVars>>

\* A triangle next to a convex counter-clockwise polygon of five vertices.
CornerTriangle == <<<<0, 0>>, <<1, 0>>, <<0, 1>>>>
Pentagon       == <<<<0, 1>>, <<0, 0>>, <<1, 0>>, <<2, 1>>, <<2, 2>>>>

\* The same five vertices, the list starting at the vertex after the k-th.
PentagonFrom(k) == [i \in 1 .. Len(Pentagon) |-> At(Pentagon, (i - 1 + k) % Len(Pentagon))]

\* The lists of polygons with more than MaxVerts vertices the caller passes.
PentagonLists ==
    {<<CornerTriangle, PentagonFrom(k)>> : k \in 0 .. Len(Pentagon) - 1}
        \cup {<<PentagonFrom(k), CornerTriangle>> : k \in 0 .. Len(Pentagon) - 1}

InitPolyHull ==
    /\ convex_polygons \in SeqsUpTo(PolyDomain, MaxPolys) \cup PentagonLists
    /\ ch = None
    /\ ch_pc = "call"
    /\ collided = None
    /\ SceneIdle
    /\ HullIdle
    /\ ConstIdle

NextPolyHull == ChansCall \/ ChansWalkStep

SpecPolyHull == InitPolyHull /\ [][NextPolyHull]_vars

\* a.collides(b), a and b being the two polygons of the caller.
CollidesCall ==
    /\ ch_pc = "collide"
    /\ collided = None
    /\ collided' = <<Collides(convex_polygons[1], convex_polygons[2])>>
    /\ UNCHANGED <<convex_polygons, ch, ch_pc, sceneVars, hullVars, constVars>>

\* b.collides(a), after a.collides(b).
CollidesBack ==
    /\ ch_pc = "collide"
    /\ Len(collided) = 1
    /\ collided' = Append(collided, Collides(convex_polygons[2], convex_polygons[1]))
    /\ UNCHANGED <<convex_polygons, ch, ch_pc, sceneVars, hullVars, constVars>>

InitCollide ==
    /\ convex_polygons \in [1 .. 2 -> PolyDomain]
    /\ ch = None
    /\ ch_pc = "collide"
    /\ collided = None
    /\ SceneIdle
    /\ HullIdle
    /\ ConstIdle

NextCollide == CollidesCall \/ CollidesBack

SpecCollide == InitCollide /\ [][NextCollide]_vars

\* All vertices of the polygons, polygon after polygon.
RECURSIVE ConcatFrom(_, _)
ConcatFrom(polys, i) == IF i > Len(polys) THEN <<>> ELSE polys[i] \o ConcatFrom(polys, i + 1)

\* C3: for convex counter-clockwise polygons without colinear or duplicate
\* vertices, convex_hull(polygons) equals (operator ==) convex_hull(points)
\* of all their vertices together.
PolyHullIsPointHull ==
    (ch_pc = "returned" /\ \A i \in DOMAIN convex_polygons : StrictlyConvexCCW(convex_polygons[i])) =>
        PolyEq(ch.result, GiftWrapping(ConcatFrom(convex_polygons, 1)))

\* C10: a.collides(b) = b.collides(a).
CollidesSymmetric == Len(collided) = 2 => collided[1] = collided[2]

\* C10 witness: both calls were made on two different polygons, one with
\* three and one with four vertices, and reported a collision.
CollidesSymmetricWitness ==
    /\ Len(collided) = 2
    /\ collided[1]
    /\ Len(convex_polygons[1]) = 3
    /\ Len(convex_polygons[2]) = 4

-----------------------------------------------------------------------------
(* collides: what it reports                                               *)

\* Some directed edge of a has every vertex of b on it or to its right.
SeparatedByEdge(a, b) ==
    \E i \in 0 .. Len(a) - 1 :
        \A k \in DOMAIN b : IsLeft(At(a, i), At(a, (i + 1) % Len(a)), b[k]) <= 0

BothConvexCCW ==
    /\ Len(convex_polygons) = 2
    /\ StrictlyConvexCCW(convex_polygons[1])
    /\ StrictlyConvexCCW(convex_polygons[2])

\* v with every coordinate doubled, and the points of the doubled grid: the
\* grid points and the points halfway between them.
Doubled(v) == [i \in DOMAIN v |-> <<2 * v[i][1], 2 * v[i][2]>>]
Halves == (0 .. 2 * MaxCoord) \X (0 .. 2 * MaxCoord)

\* Some point (of the grid or halfway) is contained in both polygons.
SharePoint(a, b) ==
    \E p \in Halves : Contains(Doubled(a), p) /\ Contains(Doubled(b), p)

\* C11: for convex counter-clockwise polygons with at least 3 vertices that
\* an edge of one of them separates (every vertex of the other is on that
\* edge's line or to its right, so the intersection has no area),
\* a.collides(b) is false.
NoCollisionWhenSeparated ==
    (Len(collided) >= 1 /\ BothConvexCCW
        /\ (\/ SeparatedByEdge(convex_polygons[1], convex_polygons[2])
            \/ SeparatedByEdge(convex_polygons[2], convex_polygons[1])))
    => ~collided[1]

\* C11 witness: a vertex of b lies on an edge of a, strictly between its
\* ends, and a.collides(b) returned false.
NoCollisionWhenSeparatedWitness ==
    /\ Len(collided) >= 1
    /\ BothConvexCCW
    /\ ~collided[1]
    /\ \E i \in 0 .. Len(convex_polygons[1]) - 1 : \E k \in DOMAIN convex_polygons[2] :
          StrictlyBetween(At(convex_polygons[1], i), convex_polygons[2][k],
                          At(convex_polygons[1], (i + 1) % Len(convex_polygons[1])))

\* C12: for convex counter-clockwise polygons with at least 3 vertices whose
\* intersection has positive area (no edge of either separates them; in
\* particular when some point is contained in both), a.collides(b) is true.
CollisionWhenOverlapping ==
    (Len(collided) >= 1 /\ BothConvexCCW
        /\ (\/ SharePoint(convex_polygons[1], convex_polygons[2])
            \/ (/\ ~SeparatedByEdge(convex_polygons[1], convex_polygons[2])
                /\ ~SeparatedByEdge(convex_polygons[2], convex_polygons[1]))))
    => collided[1]

\* C12 witness: a diamond and the square around it cross: no vertex of
\* one is contained in the other, and a.collides(b) returned true.
CollisionWhenOverlappingWitness ==
    /\ Len(collided) >= 1
    /\ collided[1]
    /\ convex_polygons[1] = <<<<1, 0>>, <<2, 1>>, <<1, 2>>, <<0, 1>>>>
    /\ convex_polygons[2] = <<<<0, 0>>, <<2, 0>>, <<2, 2>>, <<0, 2>>>>
    /\ \A k \in 1 .. 4 : /\ ~Contains(convex_polygons[2], convex_polygons[1][k])
                         /\ ~Contains(convex_polygons[1], convex_polygons[2][k])

\* C13: if either polygon has fewer than 3 vertices, collides returns false
\* in both directions.
NoCollisionWithoutArea ==
    (Len(collided) = 2 /\ (Len(convex_polygons[1]) < 3 \/ Len(convex_polygons[2]) < 3))
    => (~collided[1] /\ ~collided[2])

\* C13 witness: a line of two vertices that starts inside a square and
\* leaves it through a corner; both calls returned false.
NoCollisionWithoutAreaWitness ==
    /\ Len(collided) = 2
    /\ ~collided[1]
    /\ ~collided[2]
    /\ Len(convex_polygons[1]) = 2
    /\ Contains(convex_polygons[2], convex_polygons[1][1])

-----------------------------------------------------------------------------
(* contains: the caller and the call                                       *)

\* polygon.contains(point), for the one polygon of the caller.
ContainsCall ==
    /\ ch_pc = "contains"
    /\ contained = None
    /\ contained' = <<Contains(convex_polygons[1], point)>>
    /\ UNCHANGED <<point, area, equal, transVars, candVars, polyVars, sceneVars, hullVars>>

\* The caller constructs a polygon from any vertex list and picks a point.
InitContains ==
    /\ convex_polygons \in {<<v>> : v \in SeqsUpTo(Grid, MaxVerts)}
    /\ point \in Grid
    /\ ch = None
    /\ ch_pc = "contains"
    /\ collided = None
    /\ contained = None
    /\ area = None
    /\ equal = None
    /\ TransIdle
    /\ CandIdle
    /\ SceneIdle
    /\ HullIdle

NextContains == ContainsCall

SpecContains == InitContains /\ [][NextContains]_vars

\* p is a vertex of v or lies on the line through one of its edges.
OnBoundaryLine(v, p) ==
    \/ p \in Range(v)
    \/ \E i \in 0 .. Len(v) - 1 : IsLeft(At(v, i), At(v, (i + 1) % Len(v)), p) = 0

\* p is strictly to the left of the directed line from a to b.
StrictlyLeftOf(a, b, p) == (b[1] - a[1]) * (p[2] - a[2]) > (b[2] - a[2]) * (p[1] - a[1])

\* C14: contains is false for a point that is a vertex, on an edge or on the
\* line extending an edge, and true exactly when the polygon has at least 3
\* vertices and the point is strictly left of every directed edge.
ContainsExcludesBoundary ==
    Len(contained) = 1 =>
        /\ OnBoundaryLine(convex_polygons[1], point) => ~contained[1]
        /\ contained[1] <=>
              /\ Len(convex_polygons[1]) >= 3
              /\ \A i \in 1 .. Len(convex_polygons[1]) :
                    StrictlyLeftOf(convex_polygons[1][i],
                                   convex_polygons[1][(i % Len(convex_polygons[1])) + 1],
                                   point)

\* C14 witness: the point lies on an edge of a counter-clockwise triangle,
\* strictly between its ends, and contains returned false.
ContainsExcludesBoundaryWitness ==
    /\ Len(contained) = 1
    /\ ~contained[1]
    /\ StrictlyConvexCCW(convex_polygons[1])
    /\ Len(convex_polygons[1]) = 3
    /\ \E i \in 0 .. 2 :
          StrictlyBetween(At(convex_polygons[1], i), point, At(convex_polygons[1], (i + 1) % 3))

-----------------------------------------------------------------------------
(* area: the caller and the calls                                          *)

\* The vertices in reversed order.
Reversed(v) == [i \in DOMAIN v |-> v[Len(v) + 1 - i]]

\* The triangle of the test fixture, and a triangle and a line farther from
\* the origin, where the products of coordinates are no longer floats.
FixtureTriangle == <<<<0, 0>>, <<50, 0>>, <<25, 50>>>>
FarTriangle == <<<<4617, 4225>>, <<1453, 2354>>, <<4873, 715>>>>
FarCorner == <<<<4097, 4097>>, <<4098, 4097>>, <<4097, 4098>>>>
FarLine == <<<<4617, 4225>>, <<1453, 2354>>>>

\* polygon.area()
AreaCall ==
    /\ ch_pc = "area"
    /\ area = None
    /\ area' = <<Area2(convex_polygons[1])>>
    /\ UNCHANGED <<point, contained, equal, transVars, candVars, polyVars, sceneVars, hullVars>>

\* The caller constructs a polygon from the same vertices in reversed order
\* and asks for its area.
AreaReversedCall ==
    /\ ch_pc = "area"
    /\ Len(area) = 1
    /\ area' = Append(area, Area2(Reversed(convex_polygons[1])))
    /\ UNCHANGED <<point, contained, equal, transVars, candVars, polyVars, sceneVars, hullVars>>

InitArea ==
    /\ convex_polygons \in {<<v>> : v \in SeqsUpTo(Grid, MaxVerts)
                                         \cup {FixtureTriangle, FarTriangle, FarCorner, FarLine}}
    /\ point = <<0, 0>>
    /\ ch = None
    /\ ch_pc = "area"
    /\ collided = None
    /\ contained = None
    /\ area = None
    /\ equal = None
    /\ TransIdle
    /\ CandIdle
    /\ SceneIdle
    /\ HullIdle

NextArea == AreaCall \/ AreaReversedCall

SpecArea == InitArea /\ [][NextArea]_vars


\* The cyclic predecessor of index i of v.
PrevIndex(v, i) == IF i = 1 THEN Len(v) ELSE i - 1

\* The shoelace sum over the closed vertex cycle, from index i on, in exact
\* arithmetic.
RECURSIVE ShoelaceSum(_, _)
ShoelaceSum(v, i) ==
    IF i > Len(v) THEN 0
    ELSE v[PrevIndex(v, i)][1] * v[i][2] - v[PrevIndex(v, i)][2] * v[i][1] + ShoelaceSum(v, i + 1)

AbsOf(n) == IF n < 0 THEN 0 - n ELSE n

\* The sum of the absolute values of all products of the shoelace sum.
RECURSIVE SumAbs(_, _)
SumAbs(v, i) ==
    IF i > Len(v) THEN 0
    ELSE AbsOf(v[PrevIndex(v, i)][1] * v[i][2]) + AbsOf(v[PrevIndex(v, i)][2] * v[i][1])
         + SumAbs(v, i + 1)

\* Every product, difference and partial sum of the shoelace sum of v is an
\* integer that a float holds exactly.
ExactInFloat(v) == SumAbs(v, 1) <= 2 ^ MantissaBits

\* C15 as stated: area() is half the shoelace sum, positive for every
\* counter-clockwise polygon, exactly the negation for the reversed order, 0
\* below 3 vertices and 1250 for the fixture's triangle.  (Areas are doubled.)
AreaIsShoelaceExactly ==
    Len(area) >= 1 =>
        /\ area[1] = ShoelaceSum(convex_polygons[1], 1)
        /\ StrictlyConvexCCW(convex_polygons[1]) => area[1] > 0
        /\ Len(convex_polygons[1]) < 3 => area[1] = 0
        /\ convex_polygons[1] = FixtureTriangle => area[1] = 2500
        /\ Len(area) = 2 => area[2] = 0 - area[1]

\* C15 amended: area() is 0 below 3 vertices and 1250 for the fixture's
\* triangle; where the float arithmetic of the sum is exact it is half the
\* shoelace sum, positive for a counter-clockwise polygon and exactly the
\* negation for the reversed order.
AreaIsShoelace ==
    Len(area) >= 1 =>
        /\ Len(convex_polygons[1]) < 3 => area[1] = 0
        /\ convex_polygons[1] = FixtureTriangle => area[1] = 2500
        /\ ExactInFloat(convex_polygons[1]) =>
              /\ area[1] = ShoelaceSum(convex_polygons[1], 1)
              /\ StrictlyConvexCCW(convex_polygons[1]) => area[1] > 0
              /\ Len(area) = 2 => area[2] = 0 - area[1]

\* C15 witness: the fixture's triangle has area 1250 and, reversed, -1250.
AreaIsShoelaceWitness ==
    /\ convex_polygons[1] = FixtureTriangle
    /\ ExactInFloat(FixtureTriangle)
    /\ StrictlyConvexCCW(FixtureTriangle)
    /\ area = <<2500, 0 - 2500>>

------------------------------------------------------------------------------
(* Comparing two polygons                                                  *)

\* The points the compared polygons take their vertices from.
EqPoints == {<<0, 0>>, <<1, 0>>, <<0, 1>>}

\* a == b
EqualCall ==
    /\ ch_pc = "equal"
    /\ equal = None
    /\ equal' = <<PolyEq(convex_polygons[1], convex_polygons[2])>>
    /\ UNCHANGED <<point, contained, area, transVars, candVars, polyVars, sceneVars, hullVars>>

\* a != b
NotEqualCall ==
    /\ ch_pc = "equal"
    /\ Len(equal) = 1
    /\ equal' = Append(equal, PolyNeq(convex_polygons[1], convex_polygons[2]))
    /\ UNCHANGED <<point, contained, area, transVars, candVars, polyVars, sceneVars, hullVars>>

\* b == a
EqualBackCall ==
    /\ ch_pc = "equal"
    /\ Len(equal) = 2
    /\ equal' = Append(equal, PolyEq(convex_polygons[2], convex_polygons[1]))
    /\ UNCHANGED <<point, contained, area, transVars, candVars, polyVars, sceneVars, hullVars>>

\* a == a
EqualSelfCall ==
    /\ ch_pc = "equal"
    /\ Len(equal) = 3
    /\ equal' = Append(equal, PolyEq(convex_polygons[1], convex_polygons[1]))
    /\ UNCHANGED <<point, contained, area, transVars, candVars, polyVars, sceneVars, hullVars>>

\* The caller constructs two polygons from any two vertex lists.
InitEqual ==
    /\ convex_polygons \in {<<a, b>> : a, b \in SeqsUpTo(EqPoints, MaxVerts)}
    /\ point = <<0, 0>>
    /\ ch = None
    /\ ch_pc = "equal"
    /\ collided = None
    /\ contained = None
    /\ area = None
    /\ equal = None
    /\ TransIdle
    /\ CandIdle
    /\ SceneIdle
    /\ HullIdle

NextEqual == EqualCall \/ NotEqualCall \/ EqualBackCall \/ EqualSelfCall

SpecEqual == InitEqual /\ [][NextEqual]_vars

\* b is a with its first k vertices moved to the end.
RotatedBy(a, k) == SubSeq(a, k + 1, Len(a)) \o SubSeq(a, 1, k)

\* b's vertex sequence is some cyclic rotation of a's.
IsRotation(a, b) == \E k \in 0 .. Len(a) : b = RotatedBy(a, k)

\* C16: a == b holds exactly when b's vertex sequence is a cyclic rotation of
\* a's (same length; two empty polygons are equal); a != b is its negation,
\* b == a gives the same answer and a == a holds.
EqualityIsRotation ==
    /\ Len(equal) >= 1 =>
          /\ equal[1] <=> IsRotation(convex_polygons[1], convex_polygons[2])
          /\ Len(convex_polygons[1]) # Len(convex_polygons[2]) => ~equal[1]
          /\ Len(convex_polygons[1]) = 0 /\ Len(convex_polygons[2]) = 0 => equal[1]
    /\ Len(equal) >= 2 => (equal[2] <=> ~equal[1])
    /\ Len(equal) >= 3 => (equal[3] <=> equal[1])
    /\ Len(equal) >= 4 => equal[4]

\* C16 witness: a triangle compares equal to the same triangle starting at
\* another vertex, in both directions, and not unequal.
EqualityIsRotationWitness ==
    /\ convex_polygons = <<<< <<0, 0>>, <<1, 0>>, <<0, 1>> >>, << <<1, 0>>, <<0, 1>>, <<0, 0>> >>>>
    /\ equal = <<TRUE, FALSE, TRUE, TRUE>>

------------------------------------------------------------------------------
(* Moving one polygon                                                      *)

\* Offsets at the end of the range in which every integer is a float.
FarOffsets == {<<2 ^ MantissaBits, 0>>, <<0 - 2 ^ MantissaBits, 0>>}

\* The caller constructs one polygon.
InitMove ==
    /\ scene_polygons \in {<<NewPolygon(s)>> : s \in Shapes}
    /\ before = <<>>
    /\ beam_width = DefaultBeamWidth
    /\ best_orders = <<>>
    /\ pack_pc = "idle"
    /\ ops = 0
    /\ constructed = VerticesOf(scene_polygons)
    /\ widths = <<>>
    /\ calls = <<<<>>>>
    /\ HullIdle
    /\ PolyIdle
    /\ ConstIdle

NextMove ==
    \/ \E d \in Offsets \cup FarOffsets : TranslateCall(1, d[1], d[2])
    \/ \E q \in 1 .. 3 : RotateCall(1, q)

SpecMove == InitMove /\ [][NextMove]_vars

\* Where one call moves the point p, in exact arithmetic.
StepPoint(p, call) ==
    IF call[1] = "translate" THEN <<p[1] + call[2], p[2] + call[3]>>
    ELSE <<Cos4(call[2]) * p[1] - Sin4(call[2]) * p[2], Sin4(call[2]) * p[1] + Cos4(call[2]) * p[2]>>

\* Both coordinates of p are integers that a float holds exactly.
Representable(p) == AbsOf(p[1]) <= 2 ^ MantissaBits /\ AbsOf(p[2]) <= 2 ^ MantissaBits

\* p and every point it moves through under the calls cs[j], cs[j+1], ...
\* are representable.
RECURSIVE StaysExact(_, _, _)
StaysExact(p, cs, j) ==
    /\ Representable(p)
    /\ j <= Len(cs) => StaysExact(StepPoint(p, cs[j]), cs, j + 1)

RECURSIVE Replay(_, _, _)
Replay(data, cs, j) ==
    IF j > Len(cs) THEN data
    ELSE IF cs[j][1] = "translate" THEN Replay(TranslateT(data, cs[j][2], cs[j][3]), cs, j + 1)
    ELSE Replay(RotateT(data, cs[j][2]), cs, j + 1)

\* C18: a polygon's current_transformation() is the identity while no call
\* was issued on it, and otherwise the Transformation that the same calls in
\* the same order make of a fresh Transformation.
TransformationTracksCalls ==
    \A i \in DOMAIN scene_polygons :
        /\ calls[i] = <<>> => scene_polygons[i].transformation = Identity
        /\ scene_polygons[i].transformation = Replay(Identity, calls[i], 1)

\* C18 witness: a polygon was translated and then rotated, and its
\* transformation is no longer the identity.
TransformationTracksCallsWitness ==
    \E i \in DOMAIN scene_polygons :
        /\ Len(calls[i]) = 2
        /\ calls[i][1][1] = "translate"
        /\ calls[i][2][1] = "rotate"
        /\ scene_polygons[i].transformation # Identity
        /\ scene_polygons[i].transformation = RotateT(TranslateT(Identity, calls[i][1][2], calls[i][1][3]), calls[i][2][2])

------------------------------------------------------------------------------
(* Building a Transformation by chained calls and applying it              *)

\* The points and offsets of the caller: the grid and those of the tests.
TransPoints  == Grid \cup {<<5, 0>>}
TransOffsets == Offsets \cup {<<0, 10>>, <<1, 0>>}

\* transformation.translate(x, y)
TransTranslate(x, y) ==
    /\ ch_pc = "transform"
    /\ applied = None
    /\ Len(issued) < MaxOps
    /\ transformation' = TranslateT(transformation, x, y)
    /\ issued' = Append(issued, <<"translate", x, y>>)
    /\ UNCHANGED <<applied, point, contained, area, equal, candVars, polyVars, sceneVars, hullVars>>

\* transformation.rotate(q quarter turns)
TransRotate(q) ==
    /\ ch_pc = "transform"
    /\ applied = None
    /\ Len(issued) < MaxOps
    /\ transformation' = RotateT(transformation, q)
    /\ issued' = Append(issued, <<"rotate", q>>)
    /\ UNCHANGED <<applied, point, contained, area, equal, candVars, polyVars, sceneVars, hullVars>>

\* transformation.apply(point)
ApplyCall ==
    /\ ch_pc = "transform"
    /\ applied = None
    /\ applied' = <<Apply(transformation, point)>>
    /\ UNCHANGED <<transformation, issued, point, contained, area, equal, candVars, polyVars, sceneVars, hullVars>>

\* The caller constructs a Transformation and picks a point.
InitTransform ==
    /\ transformation = Identity
    /\ issued = <<>>
    /\ applied = None
    /\ point \in TransPoints
    /\ contained = None
    /\ area = None
    /\ equal = None
    /\ convex_polygons = <<>>
    /\ ch = None
    /\ ch_pc = "transform"
    /\ collided = None
    /\ CandIdle
    /\ SceneIdle
    /\ HullIdle

NextTransform ==
    \/ \E d \in TransOffsets : TransTranslate(d[1], d[2])
    \/ \E q \in 1 .. 3 : TransRotate(q)
    \/ ApplyCall

SpecTransform == InitTransform /\ [][NextTransform]_vars

\* Where the calls cs[j], cs[j+1], ... move the point p when they are applied
\* to it one after the other.
RECURSIVE PathPoint(_, _, _)
PathPoint(p, cs, j) == IF j > Len(cs) THEN p ELSE PathPoint(StepPoint(p, cs[j]), cs, j + 1)

------------------------------------------------------------------------------
(* The score of a packing candidate                                        *)

\* The polygons on the parent chain of candidate c, its own pack_here last;
\* a parent is referred to by its place among the candidates cands.
RECURSIVE ChainOf(_, _)
ChainOf(cands, c) ==
    IF c.parent = None THEN <<c.pack_here.vertices>>
    ELSE Append(ChainOf(cands, cands[c.parent[1]]), c.pack_here.vertices)

\* The sum of the (doubled) areas of the polygons chain[i], chain[i+1], ...
RECURSIVE SumArea2(_, _)
SumArea2(chain, i) == IF i > Len(chain) THEN 0 ELSE Area2(chain[i]) + SumArea2(chain, i + 1)

\* The (doubled) area of the convex hull of all vertices of the chain.
ChainHullArea2(chain) == Area2(GiftWrapping(ConcatFrom(chain, 1)))

\* The fraction score[1] / score[2] is 1 - covered / hull_area.
IsWasteFraction(score, covered, hull_area) ==
    hull_area > 0 => score[1] * hull_area = (hull_area - covered) * score[2]

\* C20: the score of every candidate is 1 - covered / hull_area, covered
\* being the sum of the areas of the polygons on its parent chain and
\* hull_area the area of the convex hull of exactly those polygons; a
\* candidate without parent that packs a polygon of positive area has score 0.
ScoreIsOfChain ==
    \A j \in DOMAIN best_orders :
        /\ IsWasteFraction(best_orders[j].score, SumArea2(ChainOf(best_orders, best_orders[j]), 1),
                           ChainHullArea2(ChainOf(best_orders, best_orders[j])))
        /\ (best_orders[j].parent = None /\ Area2(best_orders[j].pack_here.vertices) > 0) =>
               best_orders[j].score[1] = 0

------------------------------------------------------------------------------
(* Constructing packing candidates over a list                             *)

\* The caller constructs at most MaxCands candidates.
MaxCands == 2

\* Triangles with a horizontal base from the origin, counter-clockwise.
BaseTriangles ==
    {<<<<0, 0>>, <<b, 0>>, <<a, h>>>> : b \in 1 .. MaxCoord, a \in 0 .. MaxCoord, h \in 1 .. MaxCoord}
        \cup {FixtureTriangle}

\* A triangle and its copy translated by exactly its base.
ShiftedPair(t) == <<NewPolygon(t), PolyTranslate(NewPolygon(t), t[2][1], 0)>>

\* A clockwise triangle, three colinear vertices, and two counter-clockwise
\* triangles that touch in one vertex.
ClockwiseTriangle == <<<<0, 0>>, <<1, 2>>, <<2, 0>>>>
ColinearTriangle  == <<<<0, 0>>, <<1, 1>>, <<2, 2>>>>
LowTriangle       == <<<<0, 0>>, <<1, 0>>, <<1, 1>>>>
HighTriangle      == <<<<0, 2>>, <<1, 1>>, <<2, 2>>>>

\* The lists the caller constructs candidates over.
CandidateLists ==
    {[i \in DOMAIN l |-> NewPolygon(l[i])] : l \in SeqsUpTo(Shapes, MaxPolys)}
        \cup {ShiftedPair(t) : t \in BaseTriangles}
        \cup {<<NewPolygon(ClockwiseTriangle)>>, <<NewPolygon(ColinearTriangle)>>,
               <<NewPolygon(LowTriangle), NewPolygon(HighTriangle)>>}

\* The offsets the caller translates the polygons of the list by.
CandOffsets == {<<2, 0>>, <<1, 1>>}

\* What reads beyond a vertex list may deliver while the hull of the list is
\* constructed: nothing to choose when the construction makes no such read.
HullGarbage(packed_objects) ==
    IF ChansAlgorithm(VerticesOf(packed_objects), CHOOSE g \in Garbage : TRUE).oob
    THEN Garbage
    ELSE {CHOOSE g \in Garbage : TRUE}

\* PackingCandidate(packed_objects, pack_here, parent): the constructor
\* computes the score; when the hull walk it starts does not close, the
\* constructor does not come back.
ConstructCandidate(pack_here, parent) ==
    /\ cand_pc = "ready"
    /\ Len(candidates) < MaxCands
    /\ \E g \in HullGarbage(scene_polygons) :
          \E score \in {ComputeScore(scene_polygons, pack_here, parent, g)} :
              IF score.outcome = "returned"
              THEN /\ candidates' = Append(candidates,
                           NewCandidate(scene_polygons, pack_here, parent, score))
                   /\ scored' = Append(scored,
                           [score |-> <<score.num, score.den>>,
                            hull_area |-> Area2(ChansAlgorithm(VerticesOf(scene_polygons), g).vertices)])
                   /\ cand_pc' = "ready"
              ELSE /\ cand_pc' = "hung"
                   /\ UNCHANGED <<candidates, scored>>
    /\ UNCHANGED <<point, contained, area, equal, transVars, polyVars, sceneVars, hullVars>>

\* A candidate without parent for the i-th polygon of the list.
ConstructRoot(i) == ConstructCandidate(scene_polygons[i], None)

\* A candidate for the i-th polygon whose parent is the p-th candidate of
\* the caller.
ConstructChild(i, p) == ConstructCandidate(scene_polygons[i], <<p>>)

\* A candidate over an empty list, for a polygon of the caller.
ConstructOverEmpty ==
    /\ Len(scene_polygons) = 0
    /\ ConstructCandidate(NewPolygon(Triangle), None)

\* packed_objects[i].translate(x, y) while candidates refer to the list
CandTranslate(i, x, y) ==
    /\ cand_pc = "ready"
    /\ ops < MaxOps
    /\ scene_polygons' = [scene_polygons EXCEPT ![i] = PolyTranslate(@, x, y)]
    /\ candidates' = CandidatesAfterMove(candidates, scene_polygons')
    /\ ops' = ops + 1
    /\ UNCHANGED <<scored, cand_pc, before, beam_width, best_orders, pack_pc, constructed, widths, calls>>
    /\ UNCHANGED <<point, contained, area, equal, transVars, polyVars, hullVars>>

\* packed_objects[i].rotate(q quarter turns) while candidates refer to the list
CandRotate(i, q) ==
    /\ cand_pc = "ready"
    /\ ops < MaxOps
    /\ scene_polygons' = [scene_polygons EXCEPT ![i] = PolyRotate(@, q)]
    /\ candidates' = CandidatesAfterMove(candidates, scene_polygons')
    /\ ops' = ops + 1
    /\ UNCHANGED <<scored, cand_pc, before, beam_width, best_orders, pack_pc, constructed, widths, calls>>
    /\ UNCHANGED <<point, contained, area, equal, transVars, polyVars, hullVars>>

\* The caller builds a list of polygons.
InitCandidate ==
    /\ scene_polygons \in CandidateLists
    /\ before = <<>>
    /\ beam_width = DefaultBeamWidth
    /\ best_orders = <<>>
    /\ pack_pc = "unused"
    /\ ops = 0
    /\ constructed = <<>>
    /\ calls = <<>>
    /\ widths = <<>>
    /\ candidates = <<>>
    /\ scored = <<>>
    /\ cand_pc = "ready"
    /\ point = <<0, 0>> /\ contained = None /\ area = None /\ equal = None
    /\ TransIdle
    /\ HullIdle
    /\ PolyIdle

NextCandidate ==
    \/ \E i \in DOMAIN scene_polygons : ConstructRoot(i)
    \/ \E i \in DOMAIN scene_polygons : \E p \in DOMAIN candidates : ConstructChild(i, p)
    \/ \E i \in DOMAIN scene_polygons : \E d \in CandOffsets : CandTranslate(i, d[1], d[2])
    \/ \E i \in DOMAIN scene_polygons : \E q \in 1 .. 3 : CandRotate(i, q)
    \/ ConstructOverEmpty

SpecCandidate == InitCandidate /\ [][NextCandidate]_vars


\* The caller's list is a triangle with a horizontal base and its copy
\* shifted by that base, and the caller has constructed a candidate for the
\* first polygon and, with that candidate as parent, one for the second.
ParentAndChildOfShiftedPair ==
    /\ ops = 0
    /\ scene_polygons \in {ShiftedPair(t) : t \in BaseTriangles}
    /\ Len(candidates) = 2
    /\ candidates[1].parent = None
    /\ candidates[1].pack_here = scene_polygons[1]
    /\ candidates[2].parent = <<1>>
    /\ candidates[2].pack_here = scene_polygons[2]

\* C21: for a triangle with a horizontal base and its copy shifted by that
\* base, the score of the child candidate is exactly 1/3, that is
\* 3 * (hull_area - covered) = hull_area.
ChildOfShiftedPairScoresOneThird ==
    ParentAndChildOfShiftedPair =>
        3 * GetScore(candidates[2])[1] = GetScore(candidates[2])[2]


\* C22: get_score() of every candidate returns the value computed at its
\* construction, whatever was translated, rotated or constructed since.
ScoreIsImmutable ==
    /\ Len(scored) = Len(candidates)
    /\ \A j \in DOMAIN candidates : GetScore(candidates[j]) = scored[j].score

\* C22 witness: after a candidate was constructed, the polygon it packs was
\* moved in the list and a child was constructed with the candidate as
\* parent; computed now, the candidate's score would be a different one.
ScoreIsImmutableWitness ==
    /\ Len(candidates) = 2
    /\ candidates[2].parent = <<1>>
    /\ ops > 0
    /\ \A i \in DOMAIN scene_polygons : scene_polygons[i] # candidates[1].pack_here
    /\ CandidatesRescored(candidates, scene_polygons)[1].score # GetScore(candidates[1])
    /\ GetScore(candidates[1]) = scored[1].score

------------------------------------------------------------------------------
(* The beam width of a scene                                               *)

\* C23 as stated: in every reachable state the beam width is at least 1; it
\* is 10 while set_beam_width was not called and otherwise the argument of
\* the most recent set_beam_width call, whatever pack did in between.
BeamWidthAtLeastOne ==
    /\ GetBeamWidth(beam_width) >= 1
    /\ GetBeamWidth(beam_width) = IF widths = <<>> THEN 10 ELSE widths[Len(widths)]

\* C23 amended: the beam width is 10 while set_beam_width was not called and
\* otherwise the argument of the most recent set_beam_width call, whatever
\* pack did in between; it is at least 1 when that argument was.
BeamWidthIsLastSet ==
    /\ GetBeamWidth(beam_width) = IF widths = <<>> THEN 10 ELSE widths[Len(widths)]
    /\ (\A k \in DOMAIN widths : widths[k] >= 1) => GetBeamWidth(beam_width) >= 1

\* C23 witness: set_beam_width was called twice with different arguments,
\* pack has run since, and the beam width is the second argument.
BeamWidthIsLastSetWitness ==
    /\ Len(widths) = 2
    /\ widths[1] # widths[2]
    /\ widths[2] >= 1
    /\ pack_pc = "returned"
    /\ Len(scene_polygons) > 0
    /\ GetBeamWidth(beam_width) = widths[2]

------------------------------------------------------------------------------
(* The frontier of BeamSearch::pack                                        *)

\* C24: pack gets through its seeding loop for every list, the candidates
\* it has put into the frontier are roots, one for each polygon passed so
\* far with that polygon as pack_here, and for an empty list it creates no
\* candidate and changes nothing.
SeedsOneRootPerPolygon ==
    /\ pack_pc # "hung"
    /\ pack_pc = "seeding" =>
          /\ Len(best_orders) <= Len(scene_polygons)
          /\ \A j \in DOMAIN best_orders :
                /\ best_orders[j].parent = None
                /\ best_orders[j].pack_here = scene_polygons[j]
    /\ (pack_pc = "returned" /\ Len(before) = 0) =>
          /\ scene_polygons = before
          /\ best_orders = <<>>

\* C25: at every point during pack the frontier holds at most
\* get_beam_width() candidates, for every beam width of at least 1.
FrontierWithinBeamWidth ==
    (pack_pc = "seeding" /\ GetBeamWidth(beam_width) >= 1) =>
        Len(best_orders) <= GetBeamWidth(beam_width)

------------------------------------------------------------------------------
(* A translate issued after a rotate                                       *)

\* rotate and then translate were chained on a fresh Transformation, and it
\* was applied to the origin.
RotatedThenTranslatedOrigin ==
    /\ Len(applied) = 1
    /\ point = <<0, 0>>
    /\ Len(issued) = 2
    /\ issued[1][1] = "rotate"
    /\ issued[2][1] = "translate"

\* The chain without its last call.
Earlier(cs) == SubSeq(cs, 1, Len(cs) - 1)

\* The last call was a translate, and it added its offset to the translation
\* column and left the four rotation cells as they were.
LastTranslateOnlyAdds ==
    (Len(issued) >= 1 /\ issued[Len(issued)][1] = "translate") =>
        /\ \A c \in 1 .. 4 : transformation[c] = Replay(Identity, Earlier(issued), 1)[c]
        /\ transformation[5] = Replay(Identity, Earlier(issued), 1)[5] + issued[Len(issued)][2]
        /\ transformation[6] = Replay(Identity, Earlier(issued), 1)[6] + issued[Len(issued)][3]

\* C26 as stated: after rotate(r) and then translate(dx,dy), apply((0,0)) is
\* the offset (dx,dy) rotated by r (rotate(quarter turn).translate(1,0) maps
\* the origin to (0,1)); translate only adds to the translation column.
TranslateInRotatedFrame ==
    /\ RotatedThenTranslatedOrigin =>
          applied[1] = StepPoint(<<issued[2][2], issued[2][3]>>, issued[1])
    /\ (RotatedThenTranslatedOrigin /\ issued = <<<<"rotate", 1>>, <<"translate", 1, 0>>>>) =>
          applied[1] = <<0, 1>>
    /\ LastTranslateOnlyAdds

\* C26 amended: after rotate(r) and then translate(dx,dy), apply((0,0)) is
\* the offset (dx,dy) itself, not rotated (rotate(quarter turn).translate(1,0)
\* maps the origin to (1,0)); translate only adds to the translation column.
TranslateInFixedFrame ==
    /\ RotatedThenTranslatedOrigin => applied[1] = <<issued[2][2], issued[2][3]>>
    /\ (RotatedThenTranslatedOrigin /\ issued = <<<<"rotate", 1>>, <<"translate", 1, 0>>>>) =>
          applied[1] = <<1, 0>>
    /\ LastTranslateOnlyAdds

\* C26 witness: rotate(quarter turn).translate(1,0) was applied to the
\* origin and gave (1,0); the rotation cells are those of the quarter turn.
TranslateInFixedFrameWitness ==
    /\ RotatedThenTranslatedOrigin
    /\ issued = <<<<"rotate", 1>>, <<"translate", 1, 0>>>>
    /\ applied = <<<<1, 0>>>>
    /\ transformation = <<0, 1, 0 - 1, 0, 1, 0>>

------------------------------------------------------------------------------
(* The score of a candidate: no division by zero, and its range            *)

\* C27: no candidate's score has the denominator 0, and whenever the hull
\* area that its constructor computed was zero or negative, the score is
\* exactly 0.
ScoreZeroWithoutHullArea ==
    \A j \in DOMAIN candidates :
        /\ GetScore(candidates[j])[2] # 0
        /\ scored[j].hull_area <= 0 => GetScore(candidates[j])[1] = 0

\* C27 witness: candidates were constructed over a list of one clockwise
\* triangle, whose hull area is negative, and have score 0.
ScoreZeroWithoutHullAreaWitness ==
    /\ Len(candidates) >= 1
    /\ VerticesOf(scene_polygons) = <<ClockwiseTriangle>>
    /\ ops = 0
    /\ scored[1].hull_area < 0
    /\ GetScore(candidates[1]) = <<0, 1>>

\* C28: for every candidate over convex counter-clockwise polygons the hull
\* area is at least the covered area, so the score is at least 0 and at most 1.
ScoreWithinUnitRange ==
    (\A i \in DOMAIN scene_polygons : StrictlyConvexCCW(scene_polygons[i].vertices)) =>
        \A j \in DOMAIN candidates :
            /\ GetScore(candidates[j])[2] > 0
            /\ GetScore(candidates[j])[1] >= 0
            /\ GetScore(candidates[j])[1] <= GetScore(candidates[j])[2]

------------------------------------------------------------------------------
(* The hull walks: termination and index ranges                            *)

\* No point occurs twice in the list r.
NoPointTwice(r) == \A i, j \in DOMAIN r : i # j => r[i] # r[j]

\* C29: the merge walk of convex_hull(polygons) closes: it never runs past
\* the number of input vertices, and it never appends the same point twice.
MergeWalkCloses ==
    /\ ch_pc # "runaway"
    /\ ch # None => /\ Len(ch.result) <= SumLen(convex_polygons, 1)
                    /\ NoPointTwice(ch.result)


\* C30: during convex_hull(polygons) no vertex list is read outside its
\* range, and for every convex counter-clockwise polygon of the input the
\* first binary search ends, within the list, on the polygon's
\* lexicographically smallest vertex.
IndicesInRangeAndLeftmostFound ==
    (ch # None /\ Len(convex_polygons) >= 2) =>
        /\ ~ch.oob
        /\ \A i \in DOMAIN convex_polygons : StrictlyConvexCCW(convex_polygons[i]) =>
              /\ LeftmostIndex(convex_polygons[i]) \in 0 .. Len(convex_polygons[i]) - 1
              /\ At(convex_polygons[i], LeftmostIndex(convex_polygons[i]))
                     = MinElement(convex_polygons[i])

=============================================================================
